---------------------------- MODULE Spec2Model ----------------------------
(***************************************************************************)
(* A model of src/public/client.js of mars-rovers-dashboard: the shared    *)
(* store (store.rovers, store.apod), the date helpers, and the fetch       *)
(* callbacks getRoverInfo, getApodImage / getImageAspectRatio / cacheImage *)
(* and getDisabledDates.                                                   *)
(*                                                                         *)
(* Representation.  A calendar string "YYYY-MM-DD" is the number of days   *)
(* since 2004-01-01 (all dates of the model lie in 2004).  A JavaScript    *)
(* Date is a record [valid, t]: t counts the hours of local wall-clock     *)
(* time since 2004-01-01T00:00 local, valid = FALSE is the Invalid Date    *)
(* (time value NaN).  Daylight-saving shifts are not modelled.             *)
(***************************************************************************)
EXTENDS Integers, Sequences, FiniteSets

VARIABLES
    tz,            \* new Date().getTimezoneOffset() / 60 of the browser
    mission,       \* what the manifest endpoint serves: landing date, first sol, drift
                   \* phase, and the number of entries and the gap of the photos list
    rovers,        \* store.rovers
    roverRequests, \* getRoverManifest fetches in flight: rover name -> count
    outcome,       \* how the last getRoverInfo callback ended: "none", "ok", "TypeError"
    lastManifest,  \* the manifest the last getRoverInfo callback was given
    prior,         \* store.rovers.selectedRoverInfo as the last callback found it
    sample,        \* one earlier result of a callback, kept for comparison
    apod,          \* store.apod
    today,         \* the calendar date new Date() gives
    videoDays,     \* the dates whose picture of the day is not an image
    apodFetches,   \* getApodImageForDate fetches in flight: date -> count
    loading,       \* images whose onload has not run yet: date -> count
    rangeRequests, \* getApodImagesForDateRange fetches in flight: <<start, end>> -> count
    lastRange,     \* the range of the last range response processed
    probe          \* a sol walked through the sol-to-date mapping

roverVars == <<tz, mission, rovers, roverRequests, outcome, lastManifest, prior, sample>>
apodVars == <<apod, today, videoDays, apodFetches, loading, rangeRequests, lastRange>>
vars == <<roverVars, apodVars, probe>>

----------------------------------------------------------------------------
(* Bounds of the model *)

\* longest photos array of a manifest (longer than Spirit's cut-off of 17)
MaxLen == 20
\* a gap in the recorded sols starts after one of the first MaxGapAt entries
MaxGapAt == 2
\* longest photos array where responses race or results are compared
MaxShortLen == 2
\* getRoverManifest fetches in flight at once
MaxInFlight == 2
\* the last calendar day of the picture-of-the-day runs
MaxDay == 3
\* picture-of-the-day fetches and image loads in flight at once
MaxApodInFlight == 2
\* range requests in flight at once
MaxRangeInFlight == 2
\* the last sol walked through the sol-to-date mapping
MaxProbeSol == 1500

RoverNames == {"Curiosity", "Spirit", "Opportunity"}

\* whole-hour values of getTimezoneOffset()/60: east of UTC, UTC, west of UTC
TimeZones == {-2, 0, 5}

\* landing date served: 2004-02-01, so that the first earth date is the first
\* of a month (first sol 0) or a later day (first sol 1)
BaseDates == {31}

\* sols skipped by a gap
GapSizes == {1, 2, 36}

\* the sol-to-earth-day drift of a real mission: one extra earth day every 37
\* sols, the first one after 37 - phase sols
Phases == {0, 36}

----------------------------------------------------------------------------
(* JavaScript built-ins used by the code *)

Max(a, b) == IF a > b THEN a ELSE b
Min(a, b) == IF a < b THEN a ELSE b

\* Array.prototype.slice(start): a negative start counts from the end and is
\* clamped to the beginning of the array
Slice(arr, start) ==
    LET k == IF start < 0 THEN Max(Len(arr) + start, 0) ELSE Min(start, Len(arr))
    IN  SubSeq(arr, k + 1, Len(arr))

\* Object.assign(target, source)
ObjectAssign(target, source) ==
    [k \in (DOMAIN target) \cup (DOMAIN source) |->
        IF k \in DOMAIN source THEN source[k] ELSE target[k]]

\* the month lengths of 2004
MonthLengths == <<31, 29, 31, 30, 31, 30, 31, 31, 30, 31, 30, 31>>

RECURSIVE DayInMonth(_, _)
DayInMonth(z, m) ==
    IF z < MonthLengths[m] THEN z + 1 ELSE DayInMonth(z - MonthLengths[m], m + 1)

\* parseInt(date.substring(8, 10)): the DD field of a calendar string
DayOfMonth(date) == DayInMonth(date, 1)

InvalidDate == [valid |-> FALSE, t |-> 0]

\* new Date("YYYY-MM-DDTHH:00:00"): local time; a DD field of 00 is no date
NewDate(str) ==
    IF str.dd < 1 \/ str.dd > 31 \/ str.hh < 0 \/ str.hh > 23
    THEN InvalidDate
    ELSE [valid |-> TRUE,
          t |-> (str.prefix - (DayOfMonth(str.prefix) - 1) + (str.dd - 1)) * 24 + str.hh]

\* new Date(baseDate.setDate(baseDate.getDate() + days))
SetDate(baseDate, days) ==
    IF baseDate.valid THEN [valid |-> TRUE, t |-> baseDate.t + 24 * days]
    ELSE InvalidDate

----------------------------------------------------------------------------
(* Date helpers of client.js *)

\* the string is [prefix, dd, hh]: the "YYYY-MM-" of calendar string prefix,
\* the DD field dd and the hour field hh
getDateWithTimeString(date, timeZoneOffset) ==
    IF timeZoneOffset > 0
    THEN [prefix |-> date, dd |-> DayOfMonth(date), hh |-> timeZoneOffset]
    ELSE IF timeZoneOffset < 0
    THEN [prefix |-> date, dd |-> DayOfMonth(date) - 1, hh |-> 24 + timeZoneOffset]
    ELSE [prefix |-> date, dd |-> DayOfMonth(date), hh |-> 0]

\* (no manifest of the model has an empty earth_date, so the branch that
\* substitutes today's date is never taken)
apodStringToDate(date, timeZoneOffset) ==
    NewDate(getDateWithTimeString(date, timeZoneOffset))

----------------------------------------------------------------------------
(* The manifests the endpoint serves *)

\* the earth date on which sol falls, for a mission landed on base
EarthDate(ms, sol) == ms.base + sol + ((sol + ms.phase) \div 37)

\* the sol of the i-th entry: consecutive from the first sol, with gapSize
\* sols skipped after entry gapAt (gapAt = 0: no gap)
SolAt(ms, i) ==
    ms.firstSol + (i - 1) + (IF ms.gapAt > 0 /\ i > ms.gapAt THEN ms.gapSize ELSE 0)

\* the photo_manifest served for rover name
Manifest(ms, name) ==
    [name |-> name,
     launch_date |-> ms.base - 20,
     landing_date |-> ms.base,
     total_photos |-> 10 * ms.len,
     status |-> IF name = "Curiosity" THEN "active" ELSE "complete",
     photos |-> [i \in 1..ms.len |->
                    [sol |-> SolAt(ms, i), earth_date |-> EarthDate(ms, SolAt(ms, i))]]]

Missions(maxLen) ==
    {ms \in [base : BaseDates, firstSol : {0, 1}, phase : Phases,
             len : 0..maxLen, gapAt : 0..MaxGapAt, gapSize : GapSizes \cup {0}] :
        /\ (ms.gapAt = 0) = (ms.gapSize = 0)
        /\ ms.gapAt > 0 => ms.len > ms.gapAt}

----------------------------------------------------------------------------
(* getRoverInfo *)

\* a variant: Spirit's window forgotten
CutOffSameForAll(name) == IF name = "Curiosity" THEN -1 ELSE -5

CutOff(name) == IF name = "Curiosity" THEN -1 ELSE IF name = "Spirit" THEN -17 ELSE -5

\* a variant: the drift terms dropped
DayOffsetNoDrift(sol) == sol

\* a variant: the remainder taken where the quotient is meant
DayOffsetWrapped(sol) == sol + (sol % 37) + (sol \div 1493)

\* sol + Math.floor(sol / 37) + Math.floor(sol / 1493)
DayOffset(sol) == sol + (sol \div 37) + (sol \div 1493)

\* Array(n).fill().map((x, i) => i)
Range(n) == [i \in 1..n |-> i - 1]

MissingSols(photos) ==
    LET last == Slice(photos, -1)[1].sol
        sols == {photos[i].sol : i \in 1..Len(photos)}
    IN  SelectSeq(Range(last), LAMBDA sol : sol \notin sols)

\* the date the map callback gives a missing sol
DisabledDate(earth_date, sol, timeZoneOffset) ==
    SetDate(apodStringToDate(earth_date, timeZoneOffset), DayOffset(sol))

DisabledDates(photos, timeZoneOffset) ==
    LET missingSols == MissingSols(photos)
    IN  [i \in 1..Len(missingSols) |->
            DisabledDate(photos[1].earth_date, missingSols[i], timeZoneOffset)]

\* the boundary entry photos.slice(cutOff)[0]
BoundaryEntry(manifest) == Slice(manifest.photos, CutOff(manifest.name))[1]

SelectedRoverInfo(manifest, timeZoneOffset) ==
    LET photos == manifest.photos
    IN  [name |-> manifest.name,
         minDate |-> apodStringToDate(photos[1].earth_date, timeZoneOffset),
         maxDate |-> apodStringToDate(BoundaryEntry(manifest).earth_date, timeZoneOffset),
         disabledDates |-> DisabledDates(photos, timeZoneOffset),
         startDate |-> apodStringToDate(BoundaryEntry(manifest).earth_date, timeZoneOffset),
         launchDate |-> manifest.launch_date,
         landingDate |-> manifest.landing_date,
         totalPhotos |-> manifest.total_photos,
         completedDate |-> apodStringToDate(Slice(photos, -1)[1].earth_date, timeZoneOffset),
         status |-> manifest.status]

\* a variant: the new disabled dates appended to those already stored
NewRoverAppending(state, manifest, timeZoneOffset) ==
    LET info == SelectedRoverInfo(manifest, timeZoneOffset)
        stored == IF "disabledDates" \in DOMAIN state.selectedRoverInfo
                  THEN state.selectedRoverInfo.disabledDates
                  ELSE <<>>
    IN  ObjectAssign(state,
            [selectedRover |-> state.selectedRover,
             selectedRoverInfo |-> [info EXCEPT !.disabledDates = stored \o @],
             photos |-> [reqDate |-> BoundaryEntry(manifest).earth_date,
                         date |-> "",
                         images |-> <<>>]])

\* Object.assign(state.rovers, {selectedRover, selectedRoverInfo, photos})
NewRover(state, manifest, timeZoneOffset) ==
    ObjectAssign(state,
        [selectedRover |-> state.selectedRover,
         selectedRoverInfo |-> SelectedRoverInfo(manifest, timeZoneOffset),
         photos |-> [reqDate |-> BoundaryEntry(manifest).earth_date,
                     date |-> "",
                     images |-> <<>>]])

\* a variant: a manifest no longer than the cut-off window is refused
ThrowsBelowCutOff(manifest) == Len(manifest.photos) <= 0 - CutOff(manifest.name)

\* photos.slice(-1)[0].sol of an empty array reads a property of undefined
Throws(manifest) == Len(manifest.photos) = 0

InFlight == roverRequests["Curiosity"] + roverRequests["Spirit"] + roverRequests["Opportunity"]

\* the rover listener: the user picks rover r and getRoverInfo issues the fetch
SelectRover(r, limit) ==
    /\ InFlight < limit
    /\ rovers' = [rovers EXCEPT !.selectedRover = r]
    /\ roverRequests' = [roverRequests EXCEPT ![r] = @ + 1]
    /\ UNCHANGED <<tz, mission, outcome, lastManifest, prior, sample, apodVars, probe>>

\* the .then callback of getRoverInfo runs with the manifest of rover r
ManifestCallback(r, keep) ==
    /\ roverRequests[r] > 0
    /\ roverRequests' = [roverRequests EXCEPT ![r] = @ - 1]
    /\ lastManifest' = Manifest(mission, r)
    /\ prior' = rovers.selectedRoverInfo
    /\ IF Throws(Manifest(mission, r))
       THEN /\ outcome' = "TypeError"
            /\ UNCHANGED <<rovers, sample>>
       ELSE /\ outcome' = "ok"
            /\ rovers' = NewRover(rovers, Manifest(mission, r), tz)
            /\ sample' = IF keep
                         THEN [taken |-> TRUE,
                               manifest |-> Manifest(mission, r),
                               prior |-> rovers.selectedRoverInfo,
                               info |-> rovers'.selectedRoverInfo,
                               photos |-> rovers'.photos]
                         ELSE sample
    /\ UNCHANGED <<tz, mission, apodVars, probe>>

----------------------------------------------------------------------------
(* getApodImage, getImageAspectRatio, cacheImage *)

ApodDates == 0..MaxDay

CachedImgsDates(state) == {state.cachedImgs[i].date : i \in 1..Len(state.cachedImgs)}

ApodInFlight ==
    LET RECURSIVE Sum(_)
        Sum(S) == IF S = {} THEN 0
                  ELSE LET d == CHOOSE x \in S : TRUE
                       IN  apodFetches[d] + loading[d] + Sum(S \ {d})
    IN  Sum(ApodDates)

\* the requested image is neither the current image nor in the cache
MustFetch(state, date) ==
    /\ ~(state.currentImg.set /\ state.currentImg.date = date)
    /\ date \notin CachedImgsDates(state)

\* getApodImage(date, state): returns the current or a cached image, or
\* issues getApodImageForDate(date)
GetApodImage(date) ==
    /\ ApodInFlight < MaxApodInFlight
    /\ apodFetches' = IF MustFetch(apod, date)
                      THEN [apodFetches EXCEPT ![date] = @ + 1]
                      ELSE apodFetches
    /\ UNCHANGED <<roverVars, apod, today, videoDays, loading, rangeRequests, lastRange, probe>>

\* the .then callback of getApodImage: getImageAspectRatio sets img.src
ApodResponse(date) ==
    /\ apodFetches[date] > 0
    /\ apodFetches' = [apodFetches EXCEPT ![date] = @ - 1]
    /\ loading' = [loading EXCEPT ![date] = @ + 1]
    /\ UNCHANGED <<roverVars, apod, today, videoDays, rangeRequests, lastRange, probe>>

\* cacheImage(image, state)
CacheImage(state, image) ==
    ObjectAssign(state,
        [cachedImgs |-> Append(state.cachedImgs, image),
         currentImg |-> image])

\* a variant: the image cached without looking at the cache
OnloadStoreAlways(state, image) == CacheImage(state, image)

\* img.onload of getImageAspectRatio
OnloadStore(state, image) ==
    IF image.date \notin CachedImgsDates(state) THEN CacheImage(state, image) ELSE state

ImageOnload(date) ==
    /\ loading[date] > 0
    /\ loading' = [loading EXCEPT ![date] = @ - 1]
    /\ apod' = OnloadStore(apod, [set |-> TRUE, date |-> date])
    /\ UNCHANGED <<roverVars, today, videoDays, apodFetches, rangeRequests, lastRange, probe>>

----------------------------------------------------------------------------
(* getDisabledDates *)

Ranges == {<<s, e>> \in ApodDates \X ApodDates : s < e}

RangesInFlight ==
    LET RECURSIVE Sum(_)
        Sum(S) == IF S = {} THEN 0
                  ELSE LET x == CHOOSE y \in S : TRUE
                       IN  rangeRequests[x] + Sum(S \ {x})
    IN  Sum(Ranges)

\* getDisabledDates(state): asks for the range checkedUntil..today unless the
\* two are the same date
GetDisabledDates ==
    /\ RangesInFlight < MaxRangeInFlight
    /\ rangeRequests' = IF apod.checkedUntil # today
                        THEN [rangeRequests EXCEPT ![<<apod.checkedUntil, today>>] = @ + 1]
                        ELSE rangeRequests
    /\ UNCHANGED <<roverVars, apod, today, videoDays, apodFetches, loading, lastRange, probe>>

\* images.filter(media_type !== "image").map(date), in the order of the dates
RECURSIVE NewDisabledDates(_, _)
NewDisabledDates(startDate, endDate) ==
    IF startDate > endDate THEN <<>>
    ELSE (IF startDate \in videoDays THEN <<startDate>> ELSE <<>>)
         \o NewDisabledDates(startDate + 1, endDate)

\* the .then callback of getDisabledDates for the range startDate..endDate
RangeStore(state, newDisabledDates, endDate) ==
    IF Len(newDisabledDates) > 0
    THEN ObjectAssign(state,
            [disabledDates |-> state.disabledDates \o newDisabledDates,
             checkedUntil |-> endDate])
    ELSE state

RangeResponse(range) ==
    /\ rangeRequests[range] > 0
    /\ rangeRequests' = [rangeRequests EXCEPT ![range] = @ - 1]
    /\ apod' = RangeStore(apod, NewDisabledDates(range[1], range[2]), range[2])
    /\ lastRange' = [done |-> TRUE, startDate |-> range[1], endDate |-> range[2]]
    /\ UNCHANGED <<roverVars, today, videoDays, apodFetches, loading, probe>>

\* midnight passes
DayPasses ==
    /\ today < MaxDay
    /\ today' = today + 1
    /\ UNCHANGED <<roverVars, apod, videoDays, apodFetches, loading, rangeRequests, lastRange, probe>>

----------------------------------------------------------------------------
(* The sol-to-date mapping, one sol after the other *)

ProbeAt(sol) ==
    [sol |-> sol,
     offset |-> DayOffset(sol),
     date |-> DisabledDate(EarthDate(mission, mission.firstSol), sol, tz)]

ProbeSol ==
    /\ probe.sol < MaxProbeSol
    /\ probe' = ProbeAt(probe.sol + 1)
    /\ UNCHANGED <<roverVars, apodVars>>

----------------------------------------------------------------------------
(* Specifications *)

InitRovers ==
    [selectedRover |-> "",
     selectedRoverInfo |-> [name |-> ""],
     photos |-> [reqDate |-> "", date |-> "", images |-> <<>>]]

InitApod ==
    [cachedImgs |-> <<>>,
     currentImg |-> [set |-> FALSE, date |-> 0],
     disabledDates |-> <<>>,
     checkedUntil |-> 0]

InitRoverPart(maxLen) ==
    /\ tz \in TimeZones
    /\ mission \in Missions(maxLen)
    /\ rovers = InitRovers
    /\ roverRequests = [r \in RoverNames |-> 0]
    /\ outcome = "none"
    /\ lastManifest = [name |-> "", photos |-> <<>>]
    /\ prior = [name |-> ""]
    /\ sample = [taken |-> FALSE]

InitApodPart(days) ==
    /\ apod = InitApod
    /\ today = 1
    /\ videoDays \in SUBSET days
    /\ apodFetches = [d \in ApodDates |-> 0]
    /\ loading = [d \in ApodDates |-> 0]
    /\ rangeRequests = [x \in Ranges |-> 0]
    /\ lastRange = [done |-> FALSE]

InitProbe == probe = ProbeAt(0)

\* one manifest fetch at a time, every manifest shape
Init == InitRoverPart(MaxLen) /\ InitApodPart({}) /\ InitProbe

Next ==
    \/ \E r \in RoverNames : SelectRover(r, 1)
    \/ \E r \in RoverNames : ManifestCallback(r, FALSE)

Spec == Init /\ [][Next]_vars

\* one manifest fetch at a time, an earlier result kept for comparison
InitShort == InitRoverPart(MaxShortLen) /\ InitApodPart({}) /\ InitProbe

NextTwice ==
    \/ \E r \in RoverNames : SelectRover(r, 1)
    \/ \E r \in RoverNames : \E keep \in BOOLEAN : ManifestCallback(r, keep)

SpecTwice == InitShort /\ [][NextTwice]_vars

\* several manifest fetches in flight, answered in any order
NextRace ==
    \/ \E r \in RoverNames : SelectRover(r, MaxInFlight)
    \/ \E r \in RoverNames : ManifestCallback(r, FALSE)

SpecRace == InitShort /\ [][NextRace]_vars

\* the picture-of-the-day cache; no rover is ever selected
InitNoRover ==
    /\ tz = 0
    /\ mission = [base |-> 31, firstSol |-> 0, phase |-> 0, len |-> 0, gapAt |-> 0, gapSize |-> 0]
    /\ rovers = InitRovers
    /\ roverRequests = [r \in RoverNames |-> 0]
    /\ outcome = "none"
    /\ lastManifest = [name |-> "", photos |-> <<>>]
    /\ prior = [name |-> ""]
    /\ sample = [taken |-> FALSE]

InitApodSpec == InitNoRover /\ InitApodPart({}) /\ InitProbe

NextApod ==
    \/ \E d \in ApodDates : GetApodImage(d)
    \/ \E d \in ApodDates : ApodResponse(d)
    \/ \E d \in ApodDates : ImageOnload(d)

SpecApod == InitApodSpec /\ [][NextApod]_vars

\* the disabled dates of the picture of the day
InitDisabled == InitNoRover /\ InitApodPart(ApodDates) /\ InitProbe

NextDisabled ==
    \/ GetDisabledDates
    \/ \E range \in Ranges : RangeResponse(range)
    \/ DayPasses

SpecDisabled == InitDisabled /\ [][NextDisabled]_vars

\* the sol-to-date mapping
InitSol == InitRoverPart(0) /\ InitApodPart({}) /\ InitProbe

NextSol == ProbeSol

SpecSol == InitSol /\ [][NextSol]_vars

----------------------------------------------------------------------------
(* The claims *)

\* the cut-off window the specification gives each rover
ClaimedCutOff(name) == IF name = "Curiosity" THEN 1 ELSE IF name = "Spirit" THEN 17 ELSE 5

\* a getRoverInfo callback runs in this step
CallbackStep == \E r \in RoverNames : roverRequests'[r] < roverRequests[r]

\* a <= b on Dates compares the time values, and NaN compares false
DateLE(a, b) == a.valid /\ b.valid /\ a.t <= b.t

\* two Dates denote the same instant
SameDate(a, b) == a.valid /\ b.valid /\ a.t = b.t

C2_DatesOrdered ==
    outcome = "ok" =>
        LET info == rovers.selectedRoverInfo
        IN  /\ DateLE(info.minDate, info.startDate)
            /\ DateLE(info.startDate, info.maxDate)
            /\ DateLE(info.maxDate, info.completedDate)

\* C3, as claimed: disabledDates holds neither minDate nor the earth date of
\* any entry of the manifest.
C3_DisabledDatesAvoidManifest ==
    outcome = "ok" =>
        LET info == rovers.selectedRoverInfo
            photos == lastManifest.photos
        IN  \A i \in 1..Len(info.disabledDates) :
                /\ ~SameDate(info.disabledDates[i], info.minDate)
                /\ \A j \in 1..Len(photos) :
                      ~SameDate(info.disabledDates[i], apodStringToDate(photos[j].earth_date, tz))

\* C4: disabledDates is exactly the dates minDate + s + floor(s/37) +
\* floor(s/1493) days of the sols s of 0..N that no entry records, one entry
\* per missing sol: none when every sol is there, one when one sol is missing.
C4_DisabledDatesExact ==
    outcome = "ok" =>
        LET info == rovers.selectedRoverInfo
            photos == lastManifest.photos
            N == photos[Len(photos)].sol
            missing == {s \in 0..N : \A i \in 1..Len(photos) : photos[i].sol # s}
            dateOf(s) == SetDate(info.minDate, s + (s \div 37) + (s \div 1493))
            dd == info.disabledDates
        IN  /\ {dd[i] : i \in 1..Len(dd)} = {dateOf(s) : s \in missing}
            /\ Len(dd) = Cardinality(missing)
            /\ missing = {} => dd = <<>>
            /\ \A k \in missing : missing = {k} => dd = <<dateOf(k)>>

\* sols are missing on both sides of sol 37, and the dates are valid
C4_Witness ==
    /\ outcome = "ok"
    /\ rovers.selectedRoverInfo.minDate.valid
    /\ Len(lastManifest.photos) >= 2
    /\ lastManifest.photos[1].sol = 1
    /\ lastManifest.photos[2].sol = 38
    /\ Len(rovers.selectedRoverInfo.disabledDates) = 37

\* C5: for a manifest longer than the cut-off, maxDate and startDate are the
\* earth date of the entry at index length - cutoff (cutoff 1 for Curiosity,
\* 17 for Spirit, 5 otherwise), which is also the date requested next.
C5_BoundaryIndex ==
    (outcome = "ok" /\ Len(lastManifest.photos) > ClaimedCutOff(lastManifest.name)) =>
        LET info == rovers.selectedRoverInfo
            photos == lastManifest.photos
            index == Len(photos) - ClaimedCutOff(lastManifest.name)
        IN  /\ info.maxDate = apodStringToDate(photos[index + 1].earth_date, tz)
            /\ info.startDate = info.maxDate
            /\ rovers.photos.reqDate = photos[index + 1].earth_date

\* a Spirit manifest of 20 entries: the boundary is the entry at index 3
C5_Witness ==
    /\ outcome = "ok"
    /\ lastManifest.name = "Spirit"
    /\ Len(lastManifest.photos) = 20
    /\ rovers.selectedRoverInfo.maxDate.valid
    /\ rovers.photos.reqDate = lastManifest.photos[4].earth_date

\* C6: the day offset sol + floor(sol/37) + floor(sol/1493) grows strictly
\* with the sol, and so does the date it gives from a valid first date: the
\* next sol lands at least one day later.
C6_OffsetStrictlyIncreasing ==
    [][probe'.sol = probe.sol + 1 =>
        /\ probe'.offset > probe.offset
        /\ probe.date.valid =>
              (probe'.date.valid /\ probe'.date.t >= probe.date.t + 24)]_vars

\* the walk has passed both corrections: sol 1493 lies 1493 + 40 + 1 days on
C6_Witness ==
    /\ probe.sol = 1493
    /\ probe.offset = 1534
    /\ probe.date.valid

\* C7: a manifest computed again gives the selectedRoverInfo and photos it
\* gave before, whatever the store held before either computation.
C7_SameManifestSameResult ==
    (sample.taken /\ outcome = "ok" /\ lastManifest = sample.manifest) =>
        /\ rovers.selectedRoverInfo = sample.info
        /\ rovers.photos = sample.photos

\* the manifest was computed again over another rover's availability
C7_Witness ==
    /\ sample.taken
    /\ outcome = "ok"
    /\ lastManifest = sample.manifest
    /\ prior.name # ""
    /\ prior.name # lastManifest.name
    /\ prior # sample.prior

\* C8, as claimed: once every manifest response has been processed, the
\* stored availability and request date are those of the selected rover.
C8_SelectedRoverWins ==
    (InFlight = 0 /\ outcome = "ok") =>
        /\ rovers.selectedRoverInfo.name = rovers.selectedRover
        /\ rovers.photos.reqDate = BoundaryEntry(Manifest(mission, rovers.selectedRover)).earth_date

\* no two cached images have the same date
NoDuplicateCachedDate ==
    \A i, j \in 1..Len(apod.cachedImgs) :
        apod.cachedImgs[i].date = apod.cachedImgs[j].date => i = j

\* C9: the cache never holds two images of one date, and a fetch is issued
\* only for a date that is neither the current image's nor cached at the call.
C9_CacheHoldsEachDateOnce ==
    /\ []NoDuplicateCachedDate
    /\ [][\A d \in ApodDates :
            apodFetches'[d] > apodFetches[d] =>
                /\ ~(apod.currentImg.set /\ apod.currentImg.date = d)
                /\ d \notin CachedImgsDates(apod)]_vars

\* an image is still loading for a date that has been cached in the meantime
C9_Witness ==
    \E d \in ApodDates : d \in CachedImgsDates(apod) /\ loading[d] > 0

\* C10, as claimed: once a range response has been processed, checkedUntil is
\* the end date of that range.
C10_CheckedUntilAdvances ==
    lastRange.done => apod.checkedUntil = lastRange.endDate

=============================================================================
